---- MODULE Spec2Model ----
(***************************************************************************)
(* Model of credentials.go: the CredentialManager (Create / Verify over a  *)
(* sync.Pool of HMAC contexts) and the codecs of AuthenticatedCredential   *)
(* (base64url user name / password pair, JSON document).                   *)
(*                                                                         *)
(* Bytes are numbers 0..255, byte strings and texts are sequences (a text  *)
(* is the sequence of its ASCII codes).  A nil slice and an empty slice    *)
(* are both <<>>: every reader in the code (proto.Marshal, hmac.Equal,     *)
(* base64, hex) treats them alike.                                         *)
(***************************************************************************)
EXTENDS Integers, Sequences, FiniteSets, TLC

VARIABLES key, pool, ctx, heap, calls, codec

vars == <<key, pool, ctx, heap, calls, codec>>

----------------------------------------------------------------------------
(* Generic helpers on sequences.                                           *)

Drop(s, n) == SubSeq(s, n + 1, Len(s))

Take(s, n) == SubSeq(s, 1, n)

RECURSIVE Zeros(_)
Zeros(n) == IF n <= 0 THEN <<>> ELSE <<0>> \o Zeros(n - 1)

RECURSIVE Filter(_, _)
Filter(s, drop) ==
  IF s = <<>> THEN <<>>
  ELSE IF Head(s) \in drop THEN Filter(Tail(s), drop)
  ELSE <<Head(s)>> \o Filter(Tail(s), drop)

----------------------------------------------------------------------------
(* encoding/base64, URLEncoding: alphabet A-Z a-z 0-9 - _ with '=' padding. *)

PadChar == 61

B64Char(v) ==
  IF v < 26 THEN 65 + v
  ELSE IF v < 52 THEN 97 + (v - 26)
  ELSE IF v < 62 THEN 48 + (v - 52)
  ELSE IF v = 62 THEN 45
  ELSE 95

\* the sextet a character stands for, -1 when it is not in the alphabet
B64Val(ch) ==
  IF ch >= 65 /\ ch <= 90 THEN ch - 65
  ELSE IF ch >= 97 /\ ch <= 122 THEN ch - 97 + 26
  ELSE IF ch >= 48 /\ ch <= 57 THEN ch - 48 + 52
  ELSE IF ch = 45 THEN 62
  ELSE IF ch = 95 THEN 63
  ELSE -1

RECURSIVE B64Encode(_)
B64Encode(b) ==
  IF Len(b) = 0 THEN <<>>
  ELSE IF Len(b) = 1 THEN
    <<B64Char(b[1] \div 4), B64Char((b[1] % 4) * 16), PadChar, PadChar>>
  ELSE IF Len(b) = 2 THEN
    <<B64Char(b[1] \div 4), B64Char((b[1] % 4) * 16 + b[2] \div 16),
      B64Char((b[2] % 16) * 4), PadChar>>
  ELSE
    <<B64Char(b[1] \div 4), B64Char((b[1] % 4) * 16 + b[2] \div 16),
      B64Char((b[2] % 16) * 4 + b[3] \div 64), B64Char(b[3] % 64)>>
    \o B64Encode(Drop(b, 3))

\* one quantum of four characters; only the last one may carry padding
B64Quantum(q, last) ==
  LET v == [i \in 1..4 |-> B64Val(q[i])] IN
  IF v[1] < 0 \/ v[2] < 0 THEN [ok |-> FALSE, out |-> <<>>]
  ELSE IF v[3] >= 0 /\ v[4] >= 0 THEN
    [ok |-> TRUE,
     out |-> <<v[1] * 4 + v[2] \div 16, (v[2] % 16) * 16 + v[3] \div 4,
               (v[3] % 4) * 64 + v[4]>>]
  ELSE IF ~last THEN [ok |-> FALSE, out |-> <<>>]
  ELSE IF v[3] >= 0 /\ q[4] = PadChar THEN
    [ok |-> TRUE, out |-> <<v[1] * 4 + v[2] \div 16, (v[2] % 16) * 16 + v[3] \div 4>>]
  ELSE IF q[3] = PadChar /\ q[4] = PadChar THEN
    [ok |-> TRUE, out |-> <<v[1] * 4 + v[2] \div 16>>]
  ELSE [ok |-> FALSE, out |-> <<>>]

RECURSIVE B64DecodeQuanta(_)
B64DecodeQuanta(t) ==
  IF Len(t) = 0 THEN [ok |-> TRUE, out |-> <<>>]
  ELSE IF Len(t) < 4 THEN [ok |-> FALSE, out |-> <<>>]
  ELSE
    LET q == B64Quantum(Take(t, 4), Len(t) = 4)
        r == B64DecodeQuanta(Drop(t, 4))
    IN IF q.ok /\ r.ok THEN [ok |-> TRUE, out |-> q.out \o r.out]
       ELSE [ok |-> FALSE, out |-> <<>>]

\* base64.NewDecoder + io.ReadAll: CR and LF are skipped, the rest is decoded
B64Decode(t) == B64DecodeQuanta(Filter(t, {10, 13}))

----------------------------------------------------------------------------
(* encoding/hex                                                            *)

HexChar(n) == IF n < 10 THEN 48 + n ELSE 97 + (n - 10)

HexVal(ch) ==
  IF ch >= 48 /\ ch <= 57 THEN ch - 48
  ELSE IF ch >= 97 /\ ch <= 102 THEN ch - 97 + 10
  ELSE IF ch >= 65 /\ ch <= 70 THEN ch - 65 + 10
  ELSE -1

RECURSIVE HexEncode(_)
HexEncode(b) ==
  IF b = <<>> THEN <<>>
  ELSE <<HexChar(Head(b) \div 16), HexChar(Head(b) % 16)>> \o HexEncode(Tail(b))

RECURSIVE HexDecode(_)
HexDecode(t) ==
  IF Len(t) = 0 THEN [ok |-> TRUE, out |-> <<>>]
  ELSE IF Len(t) = 1 THEN [ok |-> FALSE, out |-> <<>>]
  ELSE
    LET hi == HexVal(t[1])
        lo == HexVal(t[2])
        r == HexDecode(Drop(t, 2))
    IN IF hi >= 0 /\ lo >= 0 /\ r.ok
       THEN [ok |-> TRUE, out |-> <<hi * 16 + lo>> \o r.out]
       ELSE [ok |-> FALSE, out |-> <<>>]

HexPrefix == <<48, 120>>

\* strings.TrimPrefix(s, "0x")
TrimPrefix0x(t) ==
  IF Len(t) >= 2 /\ Take(t, 2) = HexPrefix THEN Drop(t, 2) ELSE t

----------------------------------------------------------------------------
(* The protobuf messages of package pb (proto3) and their wire encoding.   *)
(*   message Credential { bytes node_id; int64 timestamp;                  *)
(*                        OperatorType operator_type; }                    *)
(*   message AuthenticatedCredential { Credential credential; bytes mac; } *)
(* An AuthenticatedCredential value is a record                            *)
(*   [hasCred, NodeId, OperatorType, Timestamp, Mac]                       *)
(* where hasCred = FALSE stands for a nil Credential pointer (the inner    *)
(* fields then read as their zero values).  Unknown fields are parsed and  *)
(* skipped; the model does not retain them.                                *)

FieldNodeId == 1

FieldTimestamp == 2

FieldOperatorType == 3

FieldCredential == 1

FieldMac == 2

WireVarint == 0

WireFixed64 == 1

WireBytes == 2

WireFixed32 == 5

MaxVarintLen == 10

Tag(num, wt) == num * 8 + wt

ZeroAC == [hasCred |-> FALSE, NodeId |-> <<>>, OperatorType |-> 0,
           Timestamp |-> 0, Mac |-> <<>>]

\* message.Credential = &pb.Credential{}
EmptyCredAC == [ZeroAC EXCEPT !.hasCred = TRUE]

RECURSIVE UVarint(_)
UVarint(v) == IF v < 128 THEN <<v>> ELSE <<128 + (v % 128)>> \o UVarint(v \div 128)

\* a negative int64 (or sign-extended enum) takes all ten bytes
RECURSIVE NegVarint(_, _)
NegVarint(v, n) ==
  IF n = 0 THEN <<1>> ELSE <<128 + (v % 128)>> \o NegVarint(v \div 128, n - 1)

Varint(v) == IF v >= 0 THEN UVarint(v) ELSE NegVarint(v, MaxVarintLen - 1)

RECURSIVE VarintLen(_, _)
VarintLen(b, i) ==
  IF i > Len(b) \/ i > MaxVarintLen THEN 0
  ELSE IF b[i] < 128 THEN i
  ELSE VarintLen(b, i + 1)

RECURSIVE Horner(_, _, _)
Horner(b, i, acc) ==
  IF i = 0 THEN acc ELSE Horner(b, i - 1, acc * 128 + (b[i] % 128))

\* protowire.ConsumeVarint, the value read as a signed 64-bit integer
ReadVarint(b) ==
  LET n == VarintLen(b, 1) IN
  IF n = 0 \/ (n = MaxVarintLen /\ b[n] > 1)
  THEN [ok |-> FALSE, val |-> 0, rest |-> <<>>]
  ELSE [ok |-> TRUE,
        val |-> Horner(b, n - 1, IF n = MaxVarintLen THEN 0 - b[n] ELSE b[n]),
        rest |-> Drop(b, n)]

BytesField(num, b) ==
  IF b = <<>> THEN <<>> ELSE <<Tag(num, WireBytes)>> \o Varint(Len(b)) \o b

VarintField(num, v) ==
  IF v = 0 THEN <<>> ELSE <<Tag(num, WireVarint)>> \o Varint(v)

\* proto.Marshal of the inner Credential; a nil message marshals to nothing
MarshalCredential(ac) ==
  IF ~ac.hasCred THEN <<>>
  ELSE BytesField(FieldNodeId, ac.NodeId)
       \o VarintField(FieldTimestamp, ac.Timestamp)
       \o VarintField(FieldOperatorType, ac.OperatorType)

\* proto.Marshal of the outer message: a present Credential is written even
\* when it is empty, an empty mac is not written
MarshalAC(ac) ==
  (IF ac.hasCred
   THEN LET inner == MarshalCredential(ac)
        IN <<Tag(FieldCredential, WireBytes)>> \o Varint(Len(inner)) \o inner
   ELSE <<>>)
  \o BytesField(FieldMac, ac.Mac)

ParseErr == [ok |-> FALSE, fields |-> <<>>]

RECURSIVE ParseFields(_)
ParseFields(b) ==
  IF b = <<>> THEN [ok |-> TRUE, fields |-> <<>>]
  ELSE
    LET t == ReadVarint(b)
        num == t.val \div 8
        wt == t.val % 8
        Cons(f, rest) ==
          LET r == ParseFields(rest)
          IN IF r.ok THEN [ok |-> TRUE, fields |-> <<f>> \o r.fields] ELSE ParseErr
    IN
    IF ~t.ok \/ num < 1 THEN ParseErr
    ELSE IF wt = WireVarint THEN
      LET v == ReadVarint(t.rest)
      IN IF ~v.ok THEN ParseErr
         ELSE Cons([num |-> num, wt |-> wt, int |-> v.val, bytes |-> <<>>], v.rest)
    ELSE IF wt = WireBytes THEN
      LET l == ReadVarint(t.rest)
      IN IF ~l.ok \/ l.val < 0 \/ l.val > Len(l.rest) THEN ParseErr
         ELSE Cons([num |-> num, wt |-> wt, int |-> 0, bytes |-> Take(l.rest, l.val)],
                   Drop(l.rest, l.val))
    ELSE IF wt = WireFixed64 THEN
      IF Len(t.rest) < 8 THEN ParseErr
      ELSE Cons([num |-> num, wt |-> wt, int |-> 0, bytes |-> <<>>], Drop(t.rest, 8))
    ELSE IF wt = WireFixed32 THEN
      IF Len(t.rest) < 4 THEN ParseErr
      ELSE Cons([num |-> num, wt |-> wt, int |-> 0, bytes |-> <<>>], Drop(t.rest, 4))
    ELSE ParseErr

\* the fields of a Credential message applied in wire order (last one wins)
RECURSIVE ApplyCredFields(_, _)
ApplyCredFields(ac, fs) ==
  IF fs = <<>> THEN ac
  ELSE
    LET f == Head(fs)
        next ==
          IF f.num = FieldNodeId /\ f.wt = WireBytes THEN [ac EXCEPT !.NodeId = f.bytes]
          ELSE IF f.num = FieldTimestamp /\ f.wt = WireVarint
            THEN [ac EXCEPT !.Timestamp = f.int]
          ELSE IF f.num = FieldOperatorType /\ f.wt = WireVarint
            THEN [ac EXCEPT !.OperatorType = f.int]
          ELSE ac
    IN ApplyCredFields(next, Tail(fs))

\* the fields of an AuthenticatedCredential message; a repeated credential
\* field merges into the one already present
RECURSIVE ApplyACFields(_, _)
ApplyACFields(ac, fs) ==
  IF fs = <<>> THEN [ok |-> TRUE, ac |-> ac]
  ELSE
    LET f == Head(fs) IN
    IF f.num = FieldCredential /\ f.wt = WireBytes THEN
      LET inner == ParseFields(f.bytes)
      IN IF ~inner.ok THEN [ok |-> FALSE, ac |-> ac]
         ELSE ApplyACFields(ApplyCredFields([ac EXCEPT !.hasCred = TRUE], inner.fields),
                            Tail(fs))
    ELSE IF f.num = FieldMac /\ f.wt = WireBytes
      THEN ApplyACFields([ac EXCEPT !.Mac = f.bytes], Tail(fs))
    ELSE ApplyACFields(ac, Tail(fs))

\* proto.Unmarshal(b, &AuthenticatedCredential{})
UnmarshalAC(b) ==
  LET p == ParseFields(b)
  IN IF ~p.ok THEN [ok |-> FALSE, ac |-> ZeroAC] ELSE ApplyACFields(ZeroAC, p.fields)

----------------------------------------------------------------------------
(* encoding/json for jsonAuthenticatedCredential.  A document is a text;   *)
(* the decoder reads a top-level null or an object whose member values are *)
(* strings, integers or null, matches keys without regard to case, ignores *)
(* unknown keys and lets the last of repeated keys win.  Strings with      *)
(* escapes, fractions, nested values and other top-level values are        *)
(* outside the texts the model feeds it and are reported as errors.        *)

KeyNodeID == <<110, 111, 100, 101, 95, 105, 100>>

KeyTimestamp == <<116, 105, 109, 101, 115, 116, 97, 109, 112>>

KeyOperatorType == <<111, 112, 101, 114, 97, 116, 111, 114, 95, 116, 121, 112, 101>>

KeyMac == <<109, 97, 99>>

NullText == <<110, 117, 108, 108>>

Quote == 34

ZeroJ == [NodeID |-> <<>>, Timestamp |-> 0, OperatorType |-> 0, Mac |-> <<>>]

RECURSIVE NatToText(_)
NatToText(n) ==
  IF n < 10 THEN <<48 + n>> ELSE NatToText(n \div 10) \o <<48 + (n % 10)>>

IntToText(n) == IF n < 0 THEN <<45>> \o NatToText(0 - n) ELSE NatToText(n)

QuoteText(t) == <<Quote>> \o t \o <<Quote>>

\* json.Marshal(&jsonAuthenticatedCredential{...})
JSONMarshal(j) ==
  <<123>> \o QuoteText(KeyNodeID) \o <<58>> \o QuoteText(j.NodeID)
  \o <<44>> \o QuoteText(KeyTimestamp) \o <<58>> \o IntToText(j.Timestamp)
  \o <<44>> \o QuoteText(KeyOperatorType) \o <<58>> \o IntToText(j.OperatorType)
  \o <<44>> \o QuoteText(KeyMac) \o <<58>> \o QuoteText(j.Mac)
  \o <<125>>

IsWs(ch) == ch \in {32, 9, 10, 13}

IsDigit(ch) == ch >= 48 /\ ch <= 57

RECURSIVE SkipWs(_, _)
SkipWs(t, i) == IF i <= Len(t) /\ IsWs(t[i]) THEN SkipWs(t, i + 1) ELSE i

Lower(t) == [i \in 1..Len(t) |-> IF t[i] >= 65 /\ t[i] <= 90 THEN t[i] + 32 ELSE t[i]]

\* the index of the closing quote of a string whose body starts at i, 0 if none
RECURSIVE StringEnd(_, _)
StringEnd(t, i) ==
  IF i > Len(t) \/ t[i] = 92 \/ t[i] < 32 THEN 0
  ELSE IF t[i] = Quote THEN i
  ELSE StringEnd(t, i + 1)

RECURSIVE DigitsEnd(_, _)
DigitsEnd(t, i) == IF i <= Len(t) /\ IsDigit(t[i]) THEN DigitsEnd(t, i + 1) ELSE i

RECURSIVE TextToNat(_, _)
TextToNat(t, acc) ==
  IF t = <<>> THEN acc ELSE TextToNat(Tail(t), acc * 10 + (Head(t) - 48))

NoValue == [ok |-> FALSE, kind |-> "none", text |-> <<>>, int |-> 0, next |-> 0]

\* a member value starting at i: a string, an integer or null
ParseValue(t, i) ==
  IF i > Len(t) THEN NoValue
  ELSE IF t[i] = Quote THEN
    LET e == StringEnd(t, i + 1)
    IN IF e = 0 THEN NoValue
       ELSE [ok |-> TRUE, kind |-> "string", text |-> SubSeq(t, i + 1, e - 1),
             int |-> 0, next |-> e + 1]
  ELSE IF t[i] = 45 \/ IsDigit(t[i]) THEN
    LET d == IF t[i] = 45 THEN i + 1 ELSE i
        e == DigitsEnd(t, d)
        digits == SubSeq(t, d, e - 1)
    IN IF e = d \/ (Len(digits) > 1 /\ digits[1] = 48)
          \/ (e <= Len(t) /\ t[e] \in {46, 69, 101})
       THEN NoValue
       ELSE [ok |-> TRUE, kind |-> "int", text |-> <<>>,
             int |-> IF t[i] = 45 THEN 0 - TextToNat(digits, 0) ELSE TextToNat(digits, 0),
             next |-> e]
  ELSE IF i + 3 <= Len(t) /\ SubSeq(t, i, i + 3) = NullText THEN
    [ok |-> TRUE, kind |-> "null", text |-> <<>>, int |-> 0, next |-> i + 4]
  ELSE NoValue

\* one member stored into the struct; a value of the wrong type is an error
StoreMember(j, k, v) ==
  LET name == Lower(k)
      isStr == name \in {KeyNodeID, KeyMac}
      isInt == name \in {KeyTimestamp, KeyOperatorType}
  IN
  IF v.kind = "null" \/ (~isStr /\ ~isInt) THEN [ok |-> TRUE, j |-> j]
  ELSE IF isStr /\ v.kind # "string" THEN [ok |-> FALSE, j |-> j]
  ELSE IF isInt /\ v.kind # "int" THEN [ok |-> FALSE, j |-> j]
  ELSE [ok |-> TRUE,
        j |-> IF name = KeyNodeID THEN [j EXCEPT !.NodeID = v.text]
              ELSE IF name = KeyMac THEN [j EXCEPT !.Mac = v.text]
              ELSE IF name = KeyTimestamp THEN [j EXCEPT !.Timestamp = v.int]
              ELSE [j EXCEPT !.OperatorType = v.int]]

\* the members of an object from index i (just after '{' or ','), to the end
RECURSIVE ParseMembers(_, _, _)
ParseMembers(t, i0, j) ==
  LET i == SkipWs(t, i0)
      ke == IF i <= Len(t) /\ t[i] = Quote THEN StringEnd(t, i + 1) ELSE 0
      c == SkipWs(t, ke + 1)
      v == IF ke # 0 /\ c <= Len(t) /\ t[c] = 58
           THEN ParseValue(t, SkipWs(t, c + 1)) ELSE NoValue
      n == SkipWs(t, v.next)
      s == StoreMember(j, SubSeq(t, i + 1, ke - 1), v)
  IN
  IF ~v.ok \/ n > Len(t) THEN [ok |-> FALSE, j |-> j]
  ELSE IF t[n] = 44 THEN
    LET r == ParseMembers(t, n + 1, s.j)
    IN [ok |-> s.ok /\ r.ok, j |-> r.j]
  ELSE IF t[n] = 125 /\ SkipWs(t, n + 1) > Len(t) THEN s
  ELSE [ok |-> FALSE, j |-> j]

\* json.Unmarshal(data, &j) with j the zero jsonAuthenticatedCredential
JSONUnmarshal(t) ==
  LET i == SkipWs(t, 1) IN
  IF i > Len(t) THEN [ok |-> FALSE, j |-> ZeroJ]
  ELSE IF t[i] = 123 THEN
    LET m == SkipWs(t, i + 1)
    IN IF m <= Len(t) /\ t[m] = 125
       THEN [ok |-> SkipWs(t, m + 1) > Len(t), j |-> ZeroJ]
       ELSE ParseMembers(t, i + 1, ZeroJ)
  ELSE
    LET v == ParseValue(t, i)
    IN [ok |-> v.ok /\ v.kind = "null" /\ SkipWs(t, v.next) > Len(t), j |-> ZeroJ]

----------------------------------------------------------------------------
(* crypto/hmac over sha256.  hmac.New zero-pads the key to the block size  *)
(* of the hash; the keys of the model are shorter than a block (a longer   *)
(* key would be hashed first).  The tag is modelled as an ideal MAC: it is *)
(* determined by the padded key and the message written since the last     *)
(* Reset, and two tags are equal only if both of these are.                *)

BlockSize == 64

NodeIDLen == 20

HmacKey(k) == k \o Zeros(BlockSize - Len(k))

\* h.Write(p): the message state grows by p
HashWrite(buf, p) == buf \o p

\* h.Sum(nil) of a context keyed with k holding message state buf
HashSum(k, buf) == HmacKey(k) \o buf

\* variant: the context keeps its message state
HashResetSkipped(buf) == buf

\* h.Reset(): back to the keyed state with no message
HashReset(buf) == <<>>

\* variant: only the lengths are compared
HmacEqualLength(a, b) == Len(a) = Len(b)

\* hmac.Equal(a, b)
HmacEqual(a, b) == a = b

\* variant: shorter node ids pass
NodeIDLenAtMost(nodeID) == Len(nodeID) <= NodeIDLen

\* the check of Create on its nodeID argument
NodeIDLenOK(nodeID) == Len(nodeID) = NodeIDLen

\* variant: the outer message, mac included, is authenticated
AuthBodyOuter(ac) == MarshalAC(ac)

\* variant: the timestamp is left out of what is authenticated
MarshalWithoutTimestamp(ac) == MarshalCredential([ac EXCEPT !.Timestamp = 0])

\* authenticateCredential: proto.Marshal(credential.Credential), the inner
\* message alone
AuthBody(ac) == MarshalCredential(ac)

\* the MAC a Manager holding key k attaches to the inner credential of ac
ExpectedMac(k, ac) == HashSum(k, MarshalCredential(ac))

----------------------------------------------------------------------------
(* Bounds and input sets.                                                  *)

NCalls == 2

MaxObjs == 2

Calls == 1..NCalls

Objs == 1..MaxObjs

CtxIds == 1..NCalls

Managers == {1, 2}

Keys == {<<1>>, <<1, 0>>, <<2>>}

\* the key of a Manager that has not been constructed
NoKey == <<>>

NodeA == [i \in 1..NodeIDLen |-> i]

NodeB == [i \in 1..NodeIDLen |-> 255 - i]

NodeShort == [i \in 1..(NodeIDLen - 1) |-> i]

CreateNodeIDs == {NodeA, NodeShort}

OperatorTypes == {0, 1}

Timestamps == {1700000000}

TamperNodeIDs == {NodeB, <<>>}

TamperTimestamps == {1700000001}

\* other values for a mac: cut short, last byte changed
TamperMacs(mac) ==
  IF mac = <<>> THEN {<<7>>}
  ELSE {Take(mac, Len(mac) - 1), [mac EXCEPT ![Len(mac)] = (mac[Len(mac)] + 1) % 256]}

Fields == {"node_id", "operator_type", "timestamp", "mac"}

\* the values one field of ac can be changed to
Tampered(ac, f) ==
  IF f = "node_id" THEN {[ac EXCEPT !.NodeId = n] : n \in TamperNodeIDs \ {ac.NodeId}}
  ELSE IF f = "operator_type"
    THEN {[ac EXCEPT !.OperatorType = t] : t \in OperatorTypes \ {ac.OperatorType}}
  ELSE IF f = "timestamp"
    THEN {[ac EXCEPT !.Timestamp = t] : t \in TamperTimestamps \ {ac.Timestamp}}
  ELSE IF f = "mac" THEN {[ac EXCEPT !.Mac = m] : m \in TamperMacs(ac.Mac) \ {ac.Mac}}
  ELSE {}

----------------------------------------------------------------------------
(* State.                                                                  *)
(*  key[m]    the key captured by the New function of Manager m's pool,    *)
(*            NoKey before NewCredentialManager made Manager m             *)
(*  pool[m]   the contexts checked in to Manager m's sync.Pool             *)
(*  ctx[m][i] the message state of context i of Manager m                  *)
(*  heap[o]   an AuthenticatedCredential object returned by Create: ac is  *)
(*            its current value; orig (the value Create returned) and      *)
(*            issuer (the Manager that made it) are history, read only by  *)
(*            the properties                                               *)
(*  calls[c]  one caller: the operation it is in and where.  A Verify is   *)
(*            given either the object obj itself (private = FALSE) or a    *)
(*            copy of it with one field changed, arg, that no one else     *)
(*            holds (private = TRUE)                                       *)
(*  codec     a sender's credential src (c0 is the value it started with), *)
(*            the texts on the wire (user, pass, json; from tells whether  *)
(*            they were encoded from src or arrived from elsewhere), the   *)
(*            receiver's object recv, and the last operation with its      *)
(*            outcome                                                      *)

FreeObj == [live |-> FALSE, ac |-> ZeroAC, orig |-> ZeroAC, issuer |-> 0]

IdleCall == [op |-> "none", pc |-> "idle", mgr |-> 0, obj |-> 0, nodeID |-> <<>>,
             opType |-> 0, ts |-> 0, private |-> FALSE, arg |-> ZeroAC,
             msg |-> ZeroAC, bytes |-> <<>>, h |-> 0, fresh |-> FALSE,
             res |-> "none", out |-> <<>>]

IdleCodec == [c0 |-> ZeroAC, src |-> ZeroAC, recv |-> ZeroAC, user |-> <<>>,
              pass |-> <<>>, json |-> <<>>, from |-> "none", op |-> "none",
              res |-> "none"]

LiveObjs == {o \in Objs : heap[o].live}

\* Create calls that will still store their result
Pending == {c \in Calls : calls[c].op = "Create" /\ calls[c].pc \notin {"idle", "done"}}

HasRoom == Cardinality(LiveObjs) + Cardinality(Pending) < MaxObjs

FreeSlot == CHOOSE o \in Objs : ~heap[o].live /\ \A p \in Objs : p < o => heap[p].live

Held(m) == {calls[c].h : c \in {d \in Calls : calls[d].mgr = m /\ calls[d].h # 0}}

\* New(): a context no one holds and the pool does not have
NewCtx(m) == CHOOSE i \in CtxIds \ Held(m) : \A j \in CtxIds \ Held(m) : i <= j

\* variant: Get hands out a context whether or not it is in use
GetChoicesShared(m) == CtxIds

\* sync.Pool.Get: a checked-in context if there is one, else New()
GetChoices(m) == IF pool[m] # {} THEN pool[m] ELSE {NewCtx(m)}

InitManagers ==
  /\ key = [m \in Managers |-> NoKey]
  /\ pool = [m \in Managers |-> {}]
  /\ ctx = [m \in Managers |-> [i \in CtxIds |-> <<>>]]
  /\ heap = [o \in Objs |-> FreeObj]
  /\ calls = [c \in Calls |-> IdleCall]

Init == InitManagers /\ codec = IdleCodec

----------------------------------------------------------------------------
(* CredentialManager.Create, Verify and authenticateCredential, one action *)
(* per statement that touches the pool, a context or a shared object.      *)
(* proto.Marshal cannot fail on these messages and the pool only ever      *)
(* holds hash.Hash values, so the two error returns of                     *)
(* authenticateCredential are never taken.                                 *)

NewCredentialManager(m, k) ==
  /\ key[m] = NoKey
  /\ key' = [key EXCEPT ![m] = k]
  /\ UNCHANGED <<pool, ctx, heap, calls, codec>>

\* Create, up to the call of authenticateCredential
CreateStart(c, m, nodeID, opType, ts) ==
  /\ calls[c].pc = "idle"
  /\ key[m] # NoKey
  /\ ~NodeIDLenOK(nodeID) \/ HasRoom
  /\ calls' = [calls EXCEPT ![c] =
       IF ~NodeIDLenOK(nodeID)
       THEN [IdleCall EXCEPT !.op = "Create", !.pc = "done", !.mgr = m,
               !.nodeID = nodeID, !.opType = opType, !.ts = ts, !.res = "invalid"]
       ELSE [IdleCall EXCEPT !.op = "Create", !.pc = "marshal", !.mgr = m,
               !.nodeID = nodeID, !.opType = opType, !.ts = ts,
               !.msg = [EmptyCredAC EXCEPT !.NodeId = nodeID,
                          !.OperatorType = opType, !.Timestamp = ts]]]
  /\ UNCHANGED <<key, pool, ctx, heap, codec>>

\* Verify, up to the call of authenticateCredential: tmp borrows the inner
\* message of the credential it was given, object o or (f # "none") a copy
\* of it with field f changed
VerifyStart(c, m, o, f) ==
  /\ calls[c].pc = "idle"
  /\ key[m] # NoKey
  /\ heap[o].live
  /\ \E t \in (IF f = "none" THEN {ZeroAC} ELSE Tampered(heap[o].ac, f)) :
       calls' = [calls EXCEPT ![c] =
         [IdleCall EXCEPT !.op = "Verify", !.pc = "marshal", !.mgr = m, !.obj = o,
            !.private = (f # "none"), !.arg = t]]
  /\ UNCHANGED <<key, pool, ctx, heap, codec>>

\* the credential a Verify was given, as it is now
Given(c) == IF calls[c].private THEN calls[c].arg ELSE heap[calls[c].obj].ac

\* the credential authenticateCredential serializes: Create's own message,
\* or the inner message Verify borrowed
Credential(c) == IF calls[c].op = "Create" THEN calls[c].msg ELSE Given(c)

AuthMarshal(c) ==
  /\ calls[c].pc = "marshal"
  /\ calls' = [calls EXCEPT ![c].bytes = AuthBody(Credential(c)), ![c].pc = "get"]
  /\ UNCHANGED <<key, pool, ctx, heap, codec>>

AuthGet(c) ==
  /\ calls[c].pc = "get"
  /\ \E i \in GetChoices(calls[c].mgr) :
       /\ calls' = [calls EXCEPT ![c].h = i, ![c].pc = "write",
                                 ![c].fresh = (i \notin pool[calls[c].mgr])]
       /\ pool' = [pool EXCEPT ![calls[c].mgr] = @ \ {i}]
  /\ UNCHANGED <<key, ctx, heap, codec>>

AuthWrite(c) ==
  /\ calls[c].pc = "write"
  /\ ctx' = [ctx EXCEPT ![calls[c].mgr][calls[c].h] = HashWrite(@, calls[c].bytes)]
  /\ calls' = [calls EXCEPT ![c].bytes = <<>>, ![c].pc = "sum"]
  /\ UNCHANGED <<key, pool, heap, codec>>

AuthSum(c) ==
  /\ calls[c].pc = "sum"
  /\ calls' = [calls EXCEPT
       ![c].msg.Mac = HashSum(key[calls[c].mgr], ctx[calls[c].mgr][calls[c].h]),
       ![c].pc = "reset"]
  /\ UNCHANGED <<key, pool, ctx, heap, codec>>

AuthReset(c) ==
  /\ calls[c].pc = "reset"
  /\ ctx' = [ctx EXCEPT ![calls[c].mgr][calls[c].h] = HashReset(@)]
  /\ calls' = [calls EXCEPT ![c].pc = "put"]
  /\ UNCHANGED <<key, pool, heap, codec>>

AuthPut(c) ==
  /\ calls[c].pc = "put"
  /\ pool' = [pool EXCEPT ![calls[c].mgr] = @ \cup {calls[c].h}]
  /\ calls' = [calls EXCEPT ![c].h = 0, ![c].pc = "finish"]
  /\ UNCHANGED <<key, ctx, heap, codec>>

\* Create returns &message
CreateReturn(c) ==
  /\ calls[c].pc = "finish" /\ calls[c].op = "Create"
  /\ heap' = [heap EXCEPT ![FreeSlot] =
       [live |-> TRUE, ac |-> calls[c].msg, orig |-> calls[c].msg,
        issuer |-> calls[c].mgr]]
  /\ calls' = [calls EXCEPT ![c].obj = FreeSlot, ![c].msg = ZeroAC,
                            ![c].res = "ok", ![c].pc = "done"]
  /\ UNCHANGED <<key, pool, ctx, codec>>

\* Verify compares tmp.Mac with the mac of the credential it was given
VerifyCompare(c) ==
  /\ calls[c].pc = "finish" /\ calls[c].op = "Verify"
  /\ calls' = [calls EXCEPT
       ![c].res = IF HmacEqual(calls[c].msg.Mac, Given(c).Mac)
                  THEN "ok" ELSE "mismatch",
       ![c].msg = ZeroAC, ![c].pc = "done"]
  /\ UNCHANGED <<key, pool, ctx, heap, codec>>

\* the caller is done with the result
Return(c) ==
  /\ calls[c].pc = "done"
  /\ calls' = [calls EXCEPT ![c] = IdleCall]
  /\ UNCHANGED <<key, pool, ctx, heap, codec>>

\* the runtime clears a sync.Pool at garbage collection
PoolGC(m) ==
  /\ pool[m] # {}
  /\ pool' = [pool EXCEPT ![m] = {}]
  /\ ctx' = [ctx EXCEPT ![m] = [i \in CtxIds |-> IF i \in pool[m] THEN <<>> ELSE @[i]]]
  /\ UNCHANGED <<key, heap, calls, codec>>

\* an object no caller refers to is dropped; the objects are kept numbered
\* from 1 in the order they were made
Discard(o) ==
  /\ heap[o].live
  /\ \A c \in Calls : calls[c].obj # o
  /\ heap' = [p \in Objs |->
       IF p < o THEN heap[p] ELSE IF p < MaxObjs THEN heap[p + 1] ELSE FreeObj]
  /\ calls' = [c \in Calls |->
       IF calls[c].obj > o THEN [calls[c] EXCEPT !.obj = @ - 1] ELSE calls[c]]
  /\ UNCHANGED <<key, pool, ctx, codec>>

Step(c) ==
  \/ AuthMarshal(c)
  \/ AuthGet(c)
  \/ AuthWrite(c)
  \/ AuthSum(c)
  \/ AuthReset(c)
  \/ AuthPut(c)
  \/ CreateReturn(c)
  \/ VerifyCompare(c)

----------------------------------------------------------------------------
(* The codecs of AuthenticatedCredential.  An outcome is "ok", "err" (an   *)
(* error is returned) or "panic" (the call dereferences a nil Credential). *)

\* Base64URLEncodeUsername
Base64URLEncodeUsername(ac) ==
  IF ~ac.hasCred THEN [res |-> "panic", out |-> <<>>]
  ELSE [res |-> "ok", out |-> B64Encode(ac.NodeId)]

\* Base64URLEncodePassword: ac.Credential.NodeId = nil
StripNodeId(ac) == [ac EXCEPT !.NodeId = <<>>]

\* Base64URLEncodePassword: ac.Credential.NodeId = nodeID
RestoreNodeId(ac, nodeID) == [ac EXCEPT !.NodeId = nodeID]

\* Base64URLEncodePassword run alone: the text returned and the object after
Base64URLEncodePassword(ac) ==
  IF ~ac.hasCred THEN [res |-> "panic", out |-> <<>>, ac |-> ac]
  ELSE
    LET nodeID == ac.NodeId
        stripped == StripNodeId(ac)
        marshaled == MarshalAC(stripped)
    IN [res |-> "ok", out |-> B64Encode(marshaled),
        ac |-> RestoreNodeId(stripped, nodeID)]

\* variant: the node id of the user name is not merged back
MergeNodeIdSkipped(ac, nodeID) == ac

\* Base64URLDecode: ac.Credential.NodeId = nodeID
MergeNodeId(ac, nodeID) == [ac EXCEPT !.NodeId = nodeID]

\* Base64URLDecode on receiver ac: outcome and the receiver after.  Reset
\* followed by Merge leaves the receiver equal to the unmarshaled message.
Base64URLDecode(ac, username, password) ==
  LET nodeID == B64Decode(username)
      decoded == B64Decode(password)
      newCred == UnmarshalAC(decoded.out)
  IN
  IF ~nodeID.ok \/ ~decoded.ok \/ ~newCred.ok THEN [res |-> "err", ac |-> ac]
  ELSE IF ~newCred.ac.hasCred THEN [res |-> "panic", ac |-> newCred.ac]
  ELSE [res |-> "ok", ac |-> MergeNodeId(newCred.ac, nodeID.out)]

\* MarshalJSON: "0x" + hex.EncodeToString(ac.Credential.NodeId)
HexWithPrefix(b) == HexPrefix \o HexEncode(b)

\* MarshalJSON
MarshalJSON(ac) ==
  IF ~ac.hasCred THEN [res |-> "panic", out |-> <<>>]
  ELSE [res |-> "ok",
        out |-> JSONMarshal([NodeID |-> HexWithPrefix(ac.NodeId),
                             Timestamp |-> ac.Timestamp,
                             OperatorType |-> ac.OperatorType,
                             Mac |-> B64Encode(ac.Mac)])]

\* UnmarshalJSON on a receiver: outcome and the receiver after.  The
\* receiver is reset first and given an empty Credential once the document
\* parsed.
UnmarshalJSON(data) ==
  LET p == JSONUnmarshal(data)
      decoded == B64Decode(p.j.Mac)
      nodeID == HexDecode(TrimPrefix0x(p.j.NodeID))
  IN
  IF ~p.ok THEN [res |-> "err", ac |-> ZeroAC]
  ELSE IF ~decoded.ok \/ ~nodeID.ok THEN [res |-> "err", ac |-> EmptyCredAC]
  ELSE [res |-> "ok",
        ac |-> [hasCred |-> TRUE, NodeId |-> nodeID.out,
                OperatorType |-> p.j.OperatorType, Timestamp |-> p.j.Timestamp,
                Mac |-> decoded.out]]

----------------------------------------------------------------------------
(* Encoders called on an object other callers hold.  Base64URLEncodePassword*)
(* writes the object twice; a reader between the two writes sees the       *)
(* stripped value (the Go memory model leaves a racing read free to return *)
(* either the old or the new slice).                                       *)

EncodePasswordStart(c, o) ==
  /\ calls[c].pc = "idle"
  /\ heap[o].live
  /\ heap' = [heap EXCEPT ![o].ac = StripNodeId(@)]
  /\ calls' = [calls EXCEPT ![c] =
       [IdleCall EXCEPT !.op = "EncodePassword", !.pc = "ep_marshal", !.obj = o,
          !.nodeID = heap[o].ac.NodeId]]
  /\ UNCHANGED <<key, pool, ctx, codec>>

EncodePasswordMarshal(c) ==
  /\ calls[c].pc = "ep_marshal"
  /\ calls' = [calls EXCEPT ![c].bytes = MarshalAC(heap[calls[c].obj].ac),
                            ![c].pc = "ep_restore"]
  /\ UNCHANGED <<key, pool, ctx, heap, codec>>

EncodePasswordRestore(c) ==
  /\ calls[c].pc = "ep_restore"
  /\ heap' = [heap EXCEPT ![calls[c].obj].ac = RestoreNodeId(@, calls[c].nodeID)]
  /\ calls' = [calls EXCEPT ![c].pc = "ep_encode"]
  /\ UNCHANGED <<key, pool, ctx, codec>>

EncodePasswordReturn(c) ==
  /\ calls[c].pc = "ep_encode"
  /\ calls' = [calls EXCEPT ![c].out = B64Encode(calls[c].bytes), ![c].bytes = <<>>,
                            ![c].res = "ok", ![c].pc = "done"]
  /\ UNCHANGED <<key, pool, ctx, heap, codec>>

EncodeUsernameCall(c, o) ==
  /\ calls[c].pc = "idle"
  /\ heap[o].live
  /\ calls' = [calls EXCEPT ![c] =
       [IdleCall EXCEPT !.op = "EncodeUsername", !.pc = "done", !.obj = o,
          !.res = Base64URLEncodeUsername(heap[o].ac).res,
          !.out = Base64URLEncodeUsername(heap[o].ac).out]]
  /\ UNCHANGED <<key, pool, ctx, heap, codec>>

MarshalJSONCall(c, o) ==
  /\ calls[c].pc = "idle"
  /\ heap[o].live
  /\ calls' = [calls EXCEPT ![c] =
       [IdleCall EXCEPT !.op = "MarshalJSON", !.pc = "done", !.obj = o,
          !.res = MarshalJSON(heap[o].ac).res, !.out = MarshalJSON(heap[o].ac).out]]
  /\ UNCHANGED <<key, pool, ctx, heap, codec>>

\* callers CS using Managers MS made with keys KS, Verify given what FS allows
ManagerNext(CS, MS, KS, FS) ==
  \/ \E m \in MS, k \in KS : NewCredentialManager(m, k)
  \/ \E c \in CS, m \in MS, n \in CreateNodeIDs, t \in OperatorTypes,
        ts \in Timestamps : CreateStart(c, m, n, t, ts)
  \/ \E c \in CS, m \in MS, o \in Objs, f \in FS : VerifyStart(c, m, o, f)
  \/ \E c \in CS : Step(c)
  \/ \E c \in CS : Return(c)
  \/ \E m \in MS : PoolGC(m)
  \/ \E o \in Objs : Discard(o)

\* one Manager, concurrent callers
Next == ManagerNext(Calls, {1}, Keys, {"none"})

Spec == Init /\ [][Next]_vars

\* two Managers, one caller at a time, credentials as issued or tampered with
NextKeys == ManagerNext({1}, Managers, Keys, Fields \cup {"none"})

SpecKeys == Init /\ [][NextKeys]_vars

\* the callers are goroutines: one that can take a step eventually does
FairSpec == Spec /\ \A c \in Calls : WF_vars(Step(c))

\* one Manager, concurrent callers, and the encoders on the objects they share
NextEnc ==
  \/ ManagerNext(Calls, {1}, {<<1>>}, {"none"})
  \/ \E c \in Calls, o \in Objs : EncodePasswordStart(c, o)
  \/ \E c \in Calls : EncodePasswordMarshal(c)
  \/ \E c \in Calls : EncodePasswordRestore(c)
  \/ \E c \in Calls : EncodePasswordReturn(c)
  \/ \E c \in Calls, o \in Objs : EncodeUsernameCall(c, o)
  \/ \E c \in Calls, o \in Objs : MarshalJSONCall(c, o)

SpecEnc == Init /\ [][NextEnc]_vars

----------------------------------------------------------------------------
(* The codecs run one after another: a sender encodes its credential, the  *)
(* texts travel, a receiver decodes them into its own object.  Texts may   *)
(* also arrive from elsewhere.                                             *)

CodecNodeIDs == {NodeA, NodeB}

CodecOperatorTypes == {0, 1}

CodecTimestamps == {0, 1700000000, -1}

CodecMacs == {<<>>, <<0>>, <<255, 254>>, <<1, 2, 3>>, <<250, 251, 252, 253>>}

\* the valid credentials a sender may hold
CodecCreds ==
  {[hasCred |-> TRUE, NodeId |-> n, OperatorType |-> t, Timestamp |-> ts, Mac |-> m] :
     n \in CodecNodeIDs, t \in CodecOperatorTypes, ts \in CodecTimestamps,
     m \in CodecMacs}

\* what a receiver's object may hold before it decodes into it
CodecReceivers ==
  {ZeroAC,
   [hasCred |-> TRUE, NodeId |-> NodeB, OperatorType |-> 1, Timestamp |-> 5,
    Mac |-> <<9>>]}

\* user names from elsewhere: empty, NodeA, not base64, cut short
WireUsers == {<<>>, B64Encode(NodeA), <<33>>, <<81, 81>>}

\* passwords from elsewhere: empty, a mac and no credential, an empty
\* credential, a credential cut short, not base64, a bare tag
WirePasswords ==
  {<<>>, B64Encode(<<18, 1, 5>>), B64Encode(<<10, 0>>), B64Encode(<<10, 5, 16>>),
   <<33, 33, 33, 33>>, B64Encode(<<10>>)}

\* documents from elsewhere: null, {}, cut short, bad hex, bad base64, no
\* 0x prefix, a number for node_id
WireDocs ==
  {NullText, <<123, 125>>, <<123>>,
   <<123, 34, 110, 111, 100, 101, 95, 105, 100, 34, 58, 34, 48, 120, 122, 122, 34, 44, 34, 109, 97, 99, 34, 58, 34, 34, 125>>,
   <<123, 34, 110, 111, 100, 101, 95, 105, 100, 34, 58, 34, 48, 120, 48, 49, 34, 44, 34, 109, 97, 99, 34, 58, 34, 33, 34, 125>>,
   <<123, 34, 110, 111, 100, 101, 95, 105, 100, 34, 58, 34, 48, 97, 48, 66, 34, 44, 34, 116, 105, 109, 101, 115, 116, 97, 109, 112, 34, 58, 55, 44, 34, 109, 97, 99, 34, 58, 34, 65, 81, 61, 61, 34, 125>>,
   <<123, 34, 110, 111, 100, 101, 95, 105, 100, 34, 58, 53, 125>>}

InitCodec ==
  /\ InitManagers
  /\ codec \in {[IdleCodec EXCEPT !.c0 = a, !.src = a, !.recv = r] :
                  a \in CodecCreds, r \in CodecReceivers}

EncodeToken ==
  /\ codec.op \in {"none", "DecodeToken", "DecodeJSON"}
  /\ codec.res # "panic"
  /\ LET u == Base64URLEncodeUsername(codec.src)
         p == Base64URLEncodePassword(codec.src)
     IN codec' = [codec EXCEPT !.user = u.out, !.pass = p.out, !.json = <<>>,
                    !.src = p.ac, !.from = "src", !.op = "EncodeToken",
                    !.res = IF u.res = "ok" THEN p.res ELSE u.res]
  /\ UNCHANGED <<key, pool, ctx, heap, calls>>

WireToken(u, p) ==
  /\ codec.op = "none"
  /\ codec' = [codec EXCEPT !.user = u, !.pass = p, !.from = "wire",
                 !.op = "WireToken", !.res = "none"]
  /\ UNCHANGED <<key, pool, ctx, heap, calls>>

DecodeToken ==
  /\ codec.op \in {"EncodeToken", "WireToken"}
  /\ LET r == Base64URLDecode(codec.recv, codec.user, codec.pass)
     IN codec' = [codec EXCEPT !.recv = r.ac, !.op = "DecodeToken", !.res = r.res]
  /\ UNCHANGED <<key, pool, ctx, heap, calls>>

EncodeJSON ==
  /\ codec.op \in {"none", "DecodeToken", "DecodeJSON"}
  /\ codec.res # "panic"
  /\ LET j == MarshalJSON(codec.src)
     IN codec' = [codec EXCEPT !.json = j.out, !.user = <<>>, !.pass = <<>>,
                    !.from = "src", !.op = "EncodeJSON", !.res = j.res]
  /\ UNCHANGED <<key, pool, ctx, heap, calls>>

WireJSON(t) ==
  /\ codec.op = "none"
  /\ codec' = [codec EXCEPT !.json = t, !.from = "wire", !.op = "WireJSON",
                 !.res = "none"]
  /\ UNCHANGED <<key, pool, ctx, heap, calls>>

DecodeJSON ==
  /\ codec.op \in {"EncodeJSON", "WireJSON"}
  /\ LET r == UnmarshalJSON(codec.json)
     IN codec' = [codec EXCEPT !.recv = r.ac, !.op = "DecodeJSON", !.res = r.res]
  /\ UNCHANGED <<key, pool, ctx, heap, calls>>

NextCodec ==
  \/ EncodeToken
  \/ \E u \in WireUsers, p \in WirePasswords : WireToken(u, p)
  \/ DecodeToken
  \/ EncodeJSON
  \/ \E t \in WireDocs : WireJSON(t)
  \/ DecodeJSON

SpecCodec == InitCodec /\ [][NextCodec]_vars

----------------------------------------------------------------------------
(* Properties.                                                             *)

Done(op) == {c \in Calls : calls[c].op = op /\ calls[c].pc = "done"}

\* the credential Create was asked for, before its mac is attached
Asked(c) == [EmptyCredAC EXCEPT !.NodeId = calls[c].nodeID,
               !.OperatorType = calls[c].opType, !.Timestamp = calls[c].ts]

\* Verify c was given, untouched, an object that its own Manager issued
OwnIssue(c) == ~calls[c].private /\ heap[calls[c].obj].issuer = calls[c].mgr

RECURSIVE StripZeros(_)
StripZeros(k) ==
  IF k # <<>> /\ k[Len(k)] = 0 THEN StripZeros(Take(k, Len(k) - 1)) ELSE k

\* C1: whatever the pool holds after earlier calls, Create with a 20-byte
\* node_id succeeds and returns the credential it was asked for, and Verify
\* of a credential on the Manager that created it returns ok.
C1_CreateThenVerify ==
  /\ \A c \in Done("Create") :
       Len(calls[c].nodeID) = 20 =>
         /\ calls[c].res = "ok"
         /\ heap[calls[c].obj].live
         /\ [heap[calls[c].obj].orig EXCEPT !.Mac = <<>>] = Asked(c)
  /\ \A c \in Done("Verify") : OwnIssue(c) => calls[c].res = "ok"

\* a Verify that was served by a reused context accepted its Manager's credential
C1_Witness ==
  \E c \in Done("Verify") : OwnIssue(c) /\ ~calls[c].fresh /\ calls[c].res = "ok"

\* C2: Create with a node_id that is not 20 bytes long returns an error and
\* no credential, never takes a context, and leaves the pool, the contexts
\* and the stored credentials as they were.
C2_InvalidLength ==
  /\ [](\A c \in Calls :
          (calls[c].op = "Create" /\ Len(calls[c].nodeID) # 20) =>
            /\ calls[c].pc = "done" /\ calls[c].res = "invalid"
            /\ calls[c].obj = 0 /\ calls[c].h = 0 /\ calls[c].msg = ZeroAC)
  /\ [][\A c \in Calls :
          (calls[c].op # "Create" /\ calls'[c].op = "Create"
           /\ Len(calls'[c].nodeID) # 20) =>
            (pool' = pool /\ ctx' = ctx /\ heap' = heap)]_vars

\* a Create was refused while the pool held a context
C2_Witness ==
  \E c \in Done("Create") :
    calls[c].res = "invalid" /\ Len(calls[c].nodeID) = 19 /\ pool[calls[c].mgr] # {}

\* C3 as stated: Verify under a Manager whose key differs from the key of
\* the Manager that created the credential fails with the MAC mismatch.
C3_DifferentKeyFails ==
  \A c \in Done("Verify") :
    (~calls[c].private /\ key[calls[c].mgr] # key[heap[calls[c].obj].issuer])
      => calls[c].res = "mismatch"

\* C3 amended: Verify under a Manager whose key differs from the creating
\* Manager's key other than by trailing zero bytes fails with the MAC
\* mismatch (keys no longer than the block of the hash).
C3_DifferentPaddedKeyFails ==
  \A c \in Done("Verify") :
    (~calls[c].private
     /\ StripZeros(key[calls[c].mgr]) # StripZeros(key[heap[calls[c].obj].issuer]))
      => calls[c].res = "mismatch"

\* a Manager with another key rejected a credential
C3_Witness ==
  \E c \in Done("Verify") :
    /\ ~calls[c].private /\ heap[calls[c].obj].issuer # calls[c].mgr
    /\ StripZeros(key[calls[c].mgr]) # StripZeros(key[heap[calls[c].obj].issuer])
    /\ calls[c].res = "mismatch"

\* C4: Verify returns ok exactly when the mac it was given is the MAC, under
\* the Manager's key, of the serialized inner credential; so a credential
\* that verifies no longer does once one of node_id, operator_type,
\* timestamp or mac is changed.
C4_TamperDetected ==
  \A c \in Done("Verify") :
    /\ (calls[c].res = "ok") <=>
         (Given(c).Mac = ExpectedMac(key[calls[c].mgr], Given(c)))
    /\ calls[c].res \in {"ok", "mismatch"}
    /\ (calls[c].private
        /\ heap[calls[c].obj].ac.Mac =
             ExpectedMac(key[calls[c].mgr], heap[calls[c].obj].ac))
         => calls[c].res = "mismatch"

\* a credential that verifies was presented with its timestamp changed and refused
C4_Witness ==
  \E c \in Done("Verify") :
    /\ calls[c].private
    /\ calls[c].arg.Timestamp # heap[calls[c].obj].ac.Timestamp
    /\ heap[calls[c].obj].ac.Mac = ExpectedMac(key[calls[c].mgr], heap[calls[c].obj].ac)
    /\ calls[c].res = "mismatch"

\* C5: credentials created from the same node_id, operator_type and
\* timestamp by Managers holding the same key carry the same mac, whether
\* the context that served the call was new or reused.
C5_Deterministic ==
  \A o1 \in LiveObjs, o2 \in LiveObjs :
    (/\ key[heap[o1].issuer] = key[heap[o2].issuer]
     /\ [heap[o1].orig EXCEPT !.Mac = <<>>] = [heap[o2].orig EXCEPT !.Mac = <<>>])
      => heap[o1].orig.Mac = heap[o2].orig.Mac

\* two Managers with one key created the same credential, the later one
\* with a context it had used before
C5_Witness ==
  \E c \in Done("Create"), o \in LiveObjs :
    /\ calls[c].res = "ok" /\ ~calls[c].fresh
    /\ o # calls[c].obj
    /\ heap[o].issuer # calls[c].mgr
    /\ key[heap[o].issuer] = key[calls[c].mgr]
    /\ heap[o].orig = heap[calls[c].obj].orig

\* no context is held by two calls or held while it is in the pool
Exclusive ==
  /\ \A c, d \in Calls :
       (c # d /\ calls[c].h # 0 /\ calls[c].mgr = calls[d].mgr)
         => calls[c].h # calls[d].h
  /\ \A c \in Calls : calls[c].h # 0 => calls[c].h \notin pool[calls[c].mgr]

\* a call's result is the one the same call gives when run alone
ResultAsAlone ==
  /\ \A c \in Done("Create") :
       calls[c].res = "ok" =>
         heap[calls[c].obj].orig.Mac = ExpectedMac(key[calls[c].mgr], Asked(c))
  /\ \A c \in Done("Verify") :
       (calls[c].res = "ok") <=>
         (Given(c).Mac = ExpectedMac(key[calls[c].mgr], Given(c)))

\* C6: under every interleaving of concurrent Create and Verify calls on
\* one Manager a context is held by at most one call from check-out to
\* check-in, a call at the pool is never made to wait and gets a new
\* context when the pool is empty, every call completes, and every result
\* equals that of the call run alone.
C6_Concurrent ==
  /\ [](Exclusive /\ ResultAsAlone)
  /\ [](\A c \in Calls : calls[c].pc = "get" => ENABLED AuthGet(c))
  /\ [][\A c \in Calls :
          (calls[c].pc = "get" /\ calls'[c].pc = "write" /\ pool[calls[c].mgr] = {})
            => calls'[c].fresh]_vars
  /\ \A c \in Calls : (calls[c].pc # "idle") ~> (calls[c].pc = "done")

\* two calls hold contexts at once, one of them new because the pool was empty
C6_Witness ==
  \E c, d \in Calls :
    /\ c # d /\ calls[c].h # 0 /\ calls[d].h # 0
    /\ calls[c].fresh /\ calls[c].op = "Create" /\ calls[d].op = "Verify"

\* C7: every context in the pool has empty message state.
C7_PoolClean == \A m \in Managers : \A i \in pool[m] : ctx[m][i] = <<>>

\* a context that served a call is back in the pool
C7_Witness == \E c \in Calls : calls[c].pc = "finish" /\ pool[calls[c].mgr] # {}

\* C8: decoding the user name and password, or the JSON document, encoded
\* from a valid credential succeeds and leaves the receiver equal to that
\* credential; the password carries no node_id and the document writes
\* node_id with the 0x prefix.
C8_RoundTrip ==
  /\ (codec.op \in {"DecodeToken", "DecodeJSON"} /\ codec.from = "src")
       => (codec.res = "ok" /\ codec.recv = codec.c0)
  /\ codec.op = "EncodeToken"
       => (codec.res = "ok"
           /\ UnmarshalAC(B64Decode(codec.pass).out).ac = [codec.c0 EXCEPT !.NodeId = <<>>])
  /\ codec.op = "EncodeJSON"
       => (codec.res = "ok" /\ Take(JSONUnmarshal(codec.json).j.NodeID, 2) = HexPrefix)

\* a credential with operator_type 0, timestamp 0 and no mac came back
\* from its user name and password
C8_Witness ==
  /\ codec.op = "DecodeToken" /\ codec.from = "src"
  /\ codec.c0.OperatorType = 0 /\ codec.c0.Timestamp = 0 /\ codec.c0.Mac = <<>>
  /\ codec.recv = codec.c0 /\ Len(codec.recv.NodeId) = 20

\* C9: a credential returned by Create never changes, in any state another
\* caller can observe, and Verify of it on its Manager returns ok whatever
\* encoder runs beside it.
C9_Immutable ==
  /\ \A o \in LiveObjs : heap[o].ac = heap[o].orig
  /\ \A c \in Done("Verify") : OwnIssue(c) => calls[c].res = "ok"

\* C10: a decoder either returns an error or leaves the receiver with a
\* present inner credential whose node_id is the decoded user name or hex
\* value; it never panics.
C10_DecodeBinary ==
  /\ codec.op = "DecodeToken" =>
       /\ codec.res \in {"ok", "err"}
       /\ codec.res = "ok" =>
            (codec.recv.hasCred /\ codec.recv.NodeId = B64Decode(codec.user).out)
  /\ codec.op = "DecodeJSON" =>
       /\ codec.res \in {"ok", "err"}
       /\ codec.res = "ok" =>
            /\ codec.recv.hasCred
            /\ codec.recv.NodeId =
                 HexDecode(TrimPrefix0x(JSONUnmarshal(codec.json).j.NodeID)).out

====
